---- MODULE Spec2Model ----
(***************************************************************************)
(* Session lifecycle of PostsWithAIComments: login, refresh rotation,      *)
(* logout, ban, email confirmation and password reset over the users table *)
(* and the tokens table (src/endpoints/auth.py, src/endpoints/users.py,    *)
(* src/repository/tokens.py, src/repository/users.py,                      *)
(* src/services/auth.py).                                                  *)
(*                                                                         *)
(* Every request runs on its own task.  login and refresh_token await the  *)
(* database several times, so they are modelled as the sequence of their   *)
(* database round trips (one action per round trip); the other handlers    *)
(* make one write and are one action each.  A request that is rejected     *)
(* changes nothing: its response is the value of the handler's check       *)
(* (login_check, refresh_check, get_current_user, RoleAccess, ...) in the  *)
(* state it is made in, and the action's guard is that the check passed.   *)
(***************************************************************************)
EXTENDS Integers, FiniteSets, Sequences, TLC

\* ---------------------------------------------------------------- bounds
\* token pairs and email tokens minted in one behaviour
MaxMint == 2
\* clock advances in one behaviour
MaxTicks == 1
\* posts, comments and answers created in one behaviour
MaxItems == 1

\* ------------------------------------------------------- program constants
ACCESS_TTL == 60 * 60
REFRESH_TTL == 7 * 24 * 60 * 60
EMAIL_TTL == 7 * 24 * 60 * 60

\* get_user_by_email / get_user_by_id returning None
NoUser == 0

\* the two request tasks that may be in flight together
Procs == {"t1", "t2"}

\* rows of the users table: 1 is the administrator, 2 an ordinary user
UserIds == {1, 2}
Email == [u \in UserIds |-> IF u = 1 THEN "root" ELSE "alice"]
\* addresses typed at login: the ordinary user's and one without account
\* (the administrator stays in the session it has)
Emails == {"alice", "nobody"}
\* plain passwords: the one chosen at signup, the one get_new_password draws
Passwords == {"pw", "gen"}
\* ids an administrator types into /users/ban and /users/unban: the ordinary
\* user's and one that names no row
Targets == {2, 3}
\* how far the clock may move in one step: a second, just over the access
\* lifetime, just over the refresh lifetime
Jumps == {1, ACCESS_TTL + 1, REFRESH_TTL + 1}
\* database.models.Role
Roles == {"admin", "moderator", "user"}
\* the three guards services/roles_access.py builds
admin_access == {"admin"}
admin_moderator_access == {"admin", "moderator"}
all_roles_access == {"admin", "moderator", "user"}

VARIABLES
    users,    \* users table: id -> row
    store,    \* tokens table: token string -> row
    now,      \* datetime.utcnow(), in whole seconds
    ticks,    \* clock advances so far
    nmint,    \* mints so far
    rq,       \* the request each task is serving
    issued,   \* access/refresh token strings returned to callers
    mailed,   \* <<flow, email token string>> delivered by mail
    used,     \* <<handler, email token string>> that a handler accepted
    lineage,  \* <<consumed refresh token, refresh token returned for it>>
    revoked,  \* token strings held by a user when that user logged out
    items,    \* posts, comments and answers tables: <<table, id>> -> row
    next_id,  \* the id each table gives its next row
    tasks,    \* comments for which task_create_answer was scheduled
    conf      \* a call of load_settings_from_environment / _from_file

\* the session tables and the requests on them
auth_vars == <<users, store, now, ticks, nmint, rq, issued, mailed, used, lineage,
               revoked>>
\* the content tables and the settings loader
site_vars == <<items, next_id, tasks, conf>>

vars == <<users, store, now, ticks, nmint, rq, issued, mailed, used, lineage,
          revoked, items, next_id, tasks, conf>>

\* ------------------------------------------------------------ token codec

\* a token string, by the claims jwt.encode signs into it
NoTok == [sub |-> "", scope |-> "none", iat |-> 0, exp |-> 0, sig |-> FALSE]

\* jwt.encode: deterministic in the claims, iat and exp in whole seconds
jwt_encode(sub, scope, iat, exp) ==
    [sub |-> sub, scope |-> scope, iat |-> iat, exp |-> exp, sig |-> TRUE]

\* jwt.decode: JWTError on a bad signature or an expired token
jwt_decode_ok(tok) == tok.sig /\ ~(tok.exp < now)

create_access_token(sub) ==
    jwt_encode(sub, "access_token", now, now + ACCESS_TTL)

create_refresh_token(sub) ==
    jwt_encode(sub, "refresh_token", now, now + REFRESH_TTL)

create_email_token(sub) ==
    jwt_encode(sub, "email_token", now, now + EMAIL_TTL)

get_expire_date(tok) == tok.exp

\* tokens a client can make up: the claims it wants, no valid signature
Forged ==
    { [sub |-> "alice", scope |-> s, iat |-> 0, exp |-> REFRESH_TTL, sig |-> FALSE]
        : s \in {"access_token", "refresh_token"} }

\* what a client can put in a request
Presentable == issued \cup {m[2] : m \in mailed} \cup Forged

\* -------------------------------------------------------------- passwords
get_password_hash(p) == <<"bcrypt", p>>

\* verify_password that accepts every password
verify_password_any(p, h) == TRUE

verify_password(p, h) == h = get_password_hash(p)

\* ------------------------------------------------------------- repository
get_user_by_email(e) ==
    IF \E u \in UserIds : Email[u] = e
    THEN CHOOSE u \in UserIds : Email[u] = e
    ELSE NoUser

get_user_by_id(id) == IF id \in UserIds THEN id ELSE NoUser

\* the row get_token loads, as the request keeps it
NoRow == [found |-> FALSE, blocked |-> FALSE, user_id |-> NoUser]
get_token(tok) ==
    IF tok \in DOMAIN store
    THEN [found |-> TRUE, blocked |-> store[tok].blocked,
          user_id |-> store[tok].user_id]
    ELSE NoRow

\* add_token that stores the time of the insert as the expiry
add_token_expires_now(tok, uid) ==
    [t \in DOMAIN store \cup {tok} |->
        IF t = tok
        THEN [expires |-> now, blocked |-> FALSE, user_id |-> uid]
        ELSE store[t]]

\* add_token that replaces the rows the user had
add_token_single_session(tok, uid) ==
    [t \in {x \in DOMAIN store : store[x].user_id # uid} \cup {tok} |->
        IF t = tok
        THEN [expires |-> tok.exp, blocked |-> FALSE, user_id |-> uid]
        ELSE store[t]]

\* add_token: INSERT and commit; the primary key is the token string
add_token_fails(tok) == tok \in DOMAIN store
\* the exception a failing add_token raises, as the handler's caller sees
\* it: nothing catches the IntegrityError, the session manager turns it
\* into a 500
add_token_error(tok) == IF add_token_fails(tok) THEN "ServerError" ELSE "none"
add_token(tok, uid) ==
    [t \in DOMAIN store \cup {tok} |->
        IF t = tok
        THEN [expires |-> get_expire_date(tok), blocked |-> FALSE, user_id |-> uid]
        ELSE store[t]]

block_token(tok) ==
    [t \in DOMAIN store |->
        IF t = tok THEN [store[t] EXCEPT !.blocked = TRUE] ELSE store[t]]

\* block_user_tokens without the filter on user_id
block_every_token(uid) ==
    [t \in DOMAIN store |-> [store[t] EXCEPT !.blocked = TRUE]]

\* block_user_tokens that leaves the refresh tokens alone
block_user_tokens_access_only(uid) ==
    [t \in DOMAIN store |->
        IF store[t].user_id = uid /\ t.scope = "access_token"
        THEN [store[t] EXCEPT !.blocked = TRUE] ELSE store[t]]

block_user_tokens(uid) ==
    [t \in DOMAIN store |->
        IF store[t].user_id = uid
        THEN [store[t] EXCEPT !.blocked = TRUE] ELSE store[t]]

\* delete_expired that also drops the rows that are blocked
delete_expired_or_blocked ==
    [t \in {x \in DOMAIN store : ~(store[x].expires < now) /\ ~store[x].blocked}
        |-> store[t]]

\* delete_expired with the comparison expires <= now
delete_expired_le ==
    [t \in {x \in DOMAIN store : now < store[x].expires} |-> store[t]]

\* DBTokenRepository.delete_expired: DELETE ... WHERE expires < now, commit
delete_expired ==
    [t \in {x \in DOMAIN store : ~(store[x].expires < now)} |-> store[t]]

\* what delete_expired returns, as the set of the values returned: it ends
\* without a return statement, so no count comes back
delete_expired_return == {}

\* ---------------------------------------------------------------- services

\* get_current_user that accepts a token only while its user has the
\* password chosen at signup
get_current_user_signup_password(tok) ==
    IF ~jwt_decode_ok(tok) THEN [status |-> "InvalidToken", user |-> NoUser]
    ELSE IF tok.scope # "access_token" THEN [status |-> "InvalidToken", user |-> NoUser]
    ELSE IF get_user_by_email(tok.sub) = NoUser
         THEN [status |-> "InvalidToken", user |-> NoUser]
    ELSE IF users[get_user_by_email(tok.sub)].password # get_password_hash("pw")
         THEN [status |-> "InvalidToken", user |-> NoUser]
    ELSE [status |-> "ok", user |-> get_user_by_email(tok.sub)]

\* AuthService.get_current_user: the bearer token of a protected endpoint.
\* The token store is not consulted (the blocked check is commented out).
get_current_user(tok) ==
    IF ~jwt_decode_ok(tok) THEN [status |-> "InvalidToken", user |-> NoUser]
    ELSE IF tok.scope # "access_token" THEN [status |-> "InvalidToken", user |-> NoUser]
    ELSE IF get_user_by_email(tok.sub) = NoUser
         THEN [status |-> "InvalidToken", user |-> NoUser]
    ELSE [status |-> "ok", user |-> get_user_by_email(tok.sub)]

\* decode_refresh_token without the scope test
decode_refresh_token_any_scope(tok) ==
    IF ~jwt_decode_ok(tok) THEN "InvalidToken" ELSE "ok"

\* AuthService.decode_refresh_token
decode_refresh_token(tok) ==
    IF ~jwt_decode_ok(tok) THEN "InvalidToken"
    ELSE IF tok.scope # "refresh_token" THEN "InvalidScope"
    ELSE "ok"

\* token_manager.get_email_from_token: decode with scope email_token
get_email_from_token(tok) ==
    IF ~jwt_decode_ok(tok) THEN "InvalidToken"
    ELSE IF tok.scope # "email_token" THEN "InvalidScope"
    ELSE "ok"

\* RoleAccess that tests the role without an identity
RoleAccess_role_first(allowed, tok) ==
    LET who == get_current_user(tok)
    IN  IF who.status # "ok" THEN "Forbidden"
        ELSE IF users[who.user].role \notin allowed THEN "Forbidden"
        ELSE "ok"

\* RoleAccess.__call__: identity first, then the role
RoleAccess(allowed, tok) ==
    LET who == get_current_user(tok)
    IN  IF who.status # "ok" THEN who.status
        ELSE IF users[who.user].role \notin allowed THEN "Forbidden"
        ELSE "ok"

\* login with the banned check moved ahead of the password check
login_check_banned_first(u, pw) ==
    IF u = NoUser THEN "InvalidEmail"
    ELSE IF ~users[u].email_confirmed THEN "EmailNotConfirmed"
    ELSE IF users[u].banned THEN "UserBanned"
    ELSE IF ~verify_password(pw, users[u].password) THEN "InvalidPassword"
    ELSE "ok"

\* login without the test of email_confirmed
login_check_unconfirmed(u, pw) ==
    IF u = NoUser THEN "InvalidEmail"
    ELSE IF ~verify_password(pw, users[u].password) THEN "InvalidPassword"
    ELSE IF users[u].banned THEN "UserBanned"
    ELSE "ok"

\* login, lines 115-132: the checks in the order the handler makes them
login_check(u, pw) ==
    IF u = NoUser THEN "InvalidEmail"
    ELSE IF ~users[u].email_confirmed THEN "EmailNotConfirmed"
    ELSE IF ~verify_password(pw, users[u].password) THEN "InvalidPassword"
    ELSE IF users[u].banned THEN "UserBanned"
    ELSE "ok"

\* refresh_token, lines 150-157, on the row read at line 149
refresh_check(db_token, tok) ==
    LET user == get_user_by_email(tok.sub)
    IN  IF decode_refresh_token(tok) # "ok" THEN decode_refresh_token(tok)
        ELSE IF ~db_token.found \/ db_token.blocked THEN "InvalidRefreshToken"
        ELSE IF user = NoUser THEN "ServerError"
        ELSE IF db_token.user_id # user THEN "InvalidRefreshToken"
        ELSE "ok"

\* ------------------------------------------------------------- requests

Idle == [pc |-> "idle", op |-> "none", tok |-> NoTok, db_token |-> NoRow,
         user |-> NoUser, access |-> NoTok, refresh |-> NoTok, flags |-> {}]

\* what the caller's token was when the request arrived
TokFlags(tok) == IF tok \in revoked THEN {"revoked"} ELSE {}

\* tokens of user u that callers hold
HeldBy(u) == {t \in issued : t.sub = Email[u]}

\* the administrator's token of the given scope, minted at second 0
create0(scope, ttl) == jwt_encode(Email[1], scope, 0, ttl)

\* ------------------------------------------- content and settings at rest

\* models.Post, models.Comment, models.Answer
Tables == {"posts", "comments", "answers"}

\* load_settings_* has not been called
NoCall == [call |-> "none", value |-> <<>>, settings_dir |-> <<>>,
           settings_file |-> <<>>, fs |-> {}, out |-> [status |-> "none"]]

\* the content tables are empty
ContentAtRest ==
    /\ items = <<>>
    /\ next_id = [t \in Tables |-> 1]
    /\ tasks = {}

\* the session specifications leave the content tables empty and settings
\* unloaded
SiteAtRest == ContentAtRest /\ conf = NoCall

\* the tables and the mail at second t0; mail is what has been mailed so far
SessionsAt(t0, mail) ==
    /\ users = [u \in UserIds |->
                  [email_confirmed |-> (u = 1),
                   password |-> get_password_hash("pw"),
                   banned |-> FALSE,
                   role |-> IF u = 1 THEN "admin" ELSE "user"]]
    \* the administrator logged in at second 0
    /\ store = [t \in {create0("access_token", ACCESS_TTL),
                        create0("refresh_token", REFRESH_TTL)} |->
                  [expires |-> t.exp, blocked |-> FALSE, user_id |-> 1]]
    /\ now = t0
    /\ ticks = 0
    /\ nmint = 0
    /\ rq = [p \in Procs |-> Idle]
    /\ issued = {create0("access_token", ACCESS_TTL),
                 create0("refresh_token", REFRESH_TTL)}
    /\ mailed = mail
    /\ used = {}
    /\ lineage = {}
    /\ revoked = {}

InitWith(t0, mail) == SessionsAt(t0, mail) /\ SiteAtRest

\* signup has just mailed the new user a verification token
InitAt(t0) ==
    InitWith(t0, {<<"confirm", jwt_encode(Email[2], "email_token", 0, EMAIL_TTL)>>})

\* the administrator logged in this very second
Init == InitAt(0)

\* the administrator logged in a second ago
InitRace == InitAt(1)

\* the clock moves on
Tick(d) ==
    /\ ticks < MaxTicks
    /\ now' = now + d
    /\ ticks' = ticks + 1
    /\ UNCHANGED <<users, store, nmint, rq, issued, mailed, used, lineage, revoked, site_vars>>

\* login, lines 115-139 up to the first add_token: the checks pass and
\* create_access_and_refresh_tokens mints the two tokens
LoginStart(p, e, pw) ==
    /\ rq[p].pc = "idle"
    /\ login_check(get_user_by_email(e), pw) = "ok"
    /\ nmint < MaxMint
    /\ rq' = [rq EXCEPT ![p] =
                [Idle EXCEPT !.pc = "addA", !.op = "login",
                             !.user = get_user_by_email(e),
                             !.access = create_access_token(e),
                             !.refresh = create_refresh_token(e)]]
    /\ nmint' = nmint + 1
    /\ UNCHANGED <<users, store, now, ticks, issued, mailed, used, lineage, revoked, site_vars>>

\* refresh_token, line 149: the row of the presented token is read.  The
\* request is followed for the tokens the server signed; for a forged one
\* line 150 raises whatever the row is
RefreshRead(p, tok) ==
    /\ rq[p].pc = "idle"
    /\ tok \in Presentable
    /\ tok.sig
    /\ rq' = [rq EXCEPT ![p] =
                [Idle EXCEPT !.pc = "chk", !.op = "refresh", !.tok = tok,
                             !.db_token = get_token(tok),
                             !.flags = TokFlags(tok)]]
    /\ UNCHANGED <<users, store, now, ticks, nmint, issued, mailed, used, lineage, revoked, site_vars>>

\* refresh_token, lines 150-157: the check on the row read before fails
RefreshReject(p) ==
    /\ rq[p].pc = "chk"
    /\ refresh_check(rq[p].db_token, rq[p].tok) # "ok"
    /\ rq' = [rq EXCEPT ![p] = Idle]
    /\ UNCHANGED <<users, store, now, ticks, nmint, issued, mailed, used, lineage, revoked, site_vars>>

\* refresh_token, lines 150-166 up to the first add_token: the check passes,
\* the presented token is blocked and the new pair is minted
RefreshCheck(p) ==
    /\ rq[p].pc = "chk"
    /\ refresh_check(rq[p].db_token, rq[p].tok) = "ok"
    /\ nmint < MaxMint
    /\ store' = block_token(rq[p].tok)
    /\ rq' = [rq EXCEPT ![p] =
                [@ EXCEPT !.pc = "addA",
                          !.user = get_user_by_email(rq[p].tok.sub),
                          !.access = create_access_token(rq[p].tok.sub),
                          !.refresh = create_refresh_token(rq[p].tok.sub)]]
    /\ nmint' = nmint + 1
    /\ UNCHANGED <<users, now, ticks, issued, mailed, used, lineage, revoked, site_vars>>

\* refresh_token, lines 150-159 up to the SELECT inside block_token
\* (repository/tokens.py line 27): the check passes and the row is loaded
\* again
RefreshSelect(p) ==
    /\ rq[p].pc = "chk"
    /\ refresh_check(rq[p].db_token, rq[p].tok) = "ok"
    /\ nmint < MaxMint
    /\ rq' = [rq EXCEPT ![p] =
                [@ EXCEPT !.pc = "blk", !.db_token = get_token(rq[p].tok)]]
    /\ UNCHANGED <<users, store, now, ticks, nmint, issued, mailed, used, lineage, revoked, site_vars>>

\* refresh_token, line 159 from the commit inside block_token
\* (repository/tokens.py lines 28-31) to the first add_token.  The UPDATE
\* of a loaded, unblocked row that is no longer in the table matches no
\* row: the flush raises StaleDataError and the request ends with it
RefreshBlock(p) ==
    /\ rq[p].pc = "blk"
    /\ IF rq[p].db_token.found /\ ~rq[p].db_token.blocked
          /\ rq[p].tok \notin DOMAIN store
       THEN /\ rq' = [rq EXCEPT ![p] = Idle]
            /\ UNCHANGED <<store, nmint>>
       ELSE /\ nmint < MaxMint
            /\ store' = IF rq[p].db_token.found THEN block_token(rq[p].tok)
                        ELSE store
            /\ rq' = [rq EXCEPT ![p] =
                        [@ EXCEPT !.pc = "addA",
                                  !.user = get_user_by_email(rq[p].tok.sub),
                                  !.access = create_access_token(rq[p].tok.sub),
                                  !.refresh = create_refresh_token(rq[p].tok.sub)]]
            /\ nmint' = nmint + 1
    /\ UNCHANGED <<users, now, ticks, issued, mailed, used, lineage, revoked, site_vars>>

\* create_access_and_refresh_tokens, line 91; a duplicate key ends the
\* request with the unhandled IntegrityError
AddAccess(p) ==
    /\ rq[p].pc = "addA"
    /\ IF add_token_fails(rq[p].access)
       THEN /\ rq' = [rq EXCEPT ![p] = Idle]
            /\ UNCHANGED store
       ELSE /\ store' = add_token(rq[p].access, rq[p].user)
            /\ rq' = [rq EXCEPT ![p].pc = "addR"]
    /\ UNCHANGED <<users, now, ticks, nmint, issued, mailed, used, lineage, revoked, site_vars>>

\* create_access_and_refresh_tokens, line 92
AddRefresh(p) ==
    /\ rq[p].pc = "addR"
    /\ IF add_token_fails(rq[p].refresh)
       THEN /\ rq' = [rq EXCEPT ![p] = Idle]
            /\ UNCHANGED store
       ELSE /\ store' = add_token(rq[p].refresh, rq[p].user)
            /\ rq' = [rq EXCEPT ![p].pc = "ret"]
    /\ UNCHANGED <<users, now, ticks, nmint, issued, mailed, used, lineage, revoked, site_vars>>

\* create_access_and_refresh_tokens, lines 94-98: the pair goes to the
\* caller.  sw is the handler's randint(1, 10) == 1: the delete_expired it
\* schedules runs once the response is sent
Return(p, sw) ==
    /\ rq[p].pc = "ret"
    /\ issued' = issued \cup {rq[p].access, rq[p].refresh}
    /\ lineage' = IF rq[p].op = "refresh"
                  THEN lineage \cup {<<rq[p].tok, rq[p].refresh>>}
                  ELSE lineage
    /\ rq' = [rq EXCEPT ![p] = IF sw THEN [Idle EXCEPT !.pc = "sweep"] ELSE Idle]
    /\ UNCHANGED <<users, store, now, ticks, nmint, mailed, used, revoked, site_vars>>

\* the background task token_repo.delete_expired
Sweep(p) ==
    /\ rq[p].pc = "sweep"
    /\ store' = delete_expired
    /\ rq' = [rq EXCEPT ![p] = Idle]
    /\ UNCHANGED <<users, now, ticks, nmint, issued, mailed, used, lineage, revoked, site_vars>>

\* logout, lines 207-213
Logout(tok) ==
    /\ tok \in Presentable
    /\ get_current_user(tok).status = "ok"
    /\ store' = block_user_tokens(get_current_user(tok).user)
    /\ revoked' = revoked \cup HeldBy(get_current_user(tok).user)
    /\ UNCHANGED <<users, now, ticks, nmint, rq, issued, mailed, used, lineage, site_vars>>

\* DBUserRepository.ban_user
ban_user(uid) ==
    IF get_user_by_id(uid) = NoUser THEN users
    ELSE [users EXCEPT ![uid].banned = TRUE]

\* DBUserRepository.unban_user
unban_user(uid) ==
    IF get_user_by_id(uid) = NoUser THEN users
    ELSE [users EXCEPT ![uid].banned = FALSE]

\* PATCH /users/ban/{user_id}, lines 58-74
BanUser(tok, target) ==
    /\ tok \in Presentable
    /\ RoleAccess(admin_moderator_access, tok) = "ok"
    /\ get_user_by_id(target) # NoUser
    /\ users' = ban_user(target)
    /\ UNCHANGED <<store, now, ticks, nmint, rq, issued, mailed, used, lineage, revoked, site_vars>>

\* PATCH /users/unban/{user_id}, lines 77-93
UnbanUser(tok, target) ==
    /\ tok \in Presentable
    /\ RoleAccess(admin_moderator_access, tok) = "ok"
    /\ get_user_by_id(target) # NoUser
    /\ users' = unban_user(target)
    /\ UNCHANGED <<store, now, ticks, nmint, rq, issued, mailed, used, lineage, revoked, site_vars>>

\* confirm_email that flips the flag
confirm_email_toggle(e) ==
    IF get_user_by_email(e) = NoUser THEN users
    ELSE [users EXCEPT ![get_user_by_email(e)].email_confirmed = ~@]

\* DBUserRepository.confirm_email
confirm_email(e) ==
    IF get_user_by_email(e) = NoUser THEN users
    ELSE [users EXCEPT ![get_user_by_email(e)].email_confirmed = TRUE]

\* update_password that writes only for a confirmed address
update_password_if_confirmed(uid, h) ==
    IF get_user_by_id(uid) = NoUser \/ ~users[uid].email_confirmed THEN users
    ELSE [users EXCEPT ![uid].password = h]

\* DBUserRepository.update_password
update_password(uid, h) ==
    IF get_user_by_id(uid) = NoUser THEN users
    ELSE [users EXCEPT ![uid].password = h]

\* confirmed_email / reset_password_verified_email, the token and the user
\* it names: lines 174-180 and 257-263
email_token_check(tok) ==
    IF get_email_from_token(tok) # "ok" THEN get_email_from_token(tok)
    ELSE IF get_user_by_email(tok.sub) = NoUser THEN "VerificationError"
    ELSE "ok"

\* GET /auth/confirmed_email/{token}, lines 169-182
ConfirmEmail(tok) ==
    /\ tok \in Presentable
    /\ email_token_check(tok) = "ok"
    /\ users' = confirm_email(tok.sub)
    /\ used' = used \cup {<<"confirm", tok>>}
    /\ UNCHANGED <<store, now, ticks, nmint, rq, issued, mailed, lineage, revoked, site_vars>>

\* GET /auth/reset_password/{reset_token}, lines 251-270; the password
\* get_new_password draws is "gen"
ResetPassword(tok) ==
    /\ tok \in Presentable
    /\ email_token_check(tok) = "ok"
    /\ users' = update_password(get_user_by_email(tok.sub), get_password_hash("gen"))
    /\ used' = used \cup {<<"reset", tok>>}
    /\ UNCHANGED <<store, now, ticks, nmint, rq, issued, mailed, lineage, revoked, site_vars>>

\* POST /auth/resend_confirmation, lines 185-204, with the background task
\* send_verification_email that mints the token and mails it
ResendConfirmation(e) ==
    /\ get_user_by_email(e) # NoUser
    /\ ~users[get_user_by_email(e)].email_confirmed
    /\ nmint < MaxMint
    /\ mailed' = mailed \cup {<<"confirm", create_email_token(e)>>}
    /\ nmint' = nmint + 1
    /\ UNCHANGED <<users, store, now, ticks, rq, issued, used, lineage, revoked, site_vars>>

\* POST /auth/reset_password, lines 231-248, with the background task
\* send_reset_password_email that mints the token and mails it
ResetPasswordRequest(e) ==
    /\ get_user_by_email(e) # NoUser
    /\ nmint < MaxMint
    /\ mailed' = mailed \cup {<<"reset", create_email_token(e)>>}
    /\ nmint' = nmint + 1
    /\ UNCHANGED <<users, store, now, ticks, rq, issued, used, lineage, revoked, site_vars>>

\* change_password, lines 216-222: the caller's identity, then the old
\* password against the stored hash
change_password_check(tok, old) ==
    LET who == get_current_user(tok)
    IN  IF who.status # "ok" THEN who.status
        ELSE IF ~verify_password(old, users[who.user].password)
             THEN "InvalidPassword"
        ELSE "ok"

\* change_password, lines 216-228: the users table once the call is over
change_password(tok, old, new) ==
    IF change_password_check(tok, old) # "ok" THEN users
    ELSE update_password(get_current_user(tok).user, get_password_hash(new))

\* POST /auth/change_password, lines 216-228
ChangePassword(tok, old, new) ==
    /\ tok \in Presentable
    /\ change_password_check(tok, old) = "ok"
    /\ users' = change_password(tok, old, new)
    /\ UNCHANGED <<store, now, ticks, nmint, rq, issued, mailed, used, lineage, revoked, site_vars>>

\* DBUserRepository.change_role
change_role(uid, role) ==
    IF get_user_by_id(uid) = NoUser THEN users
    ELSE [users EXCEPT ![uid].role = role]

\* PATCH /users/change_role, lines 96-112
ChangeRole(tok, target, role) ==
    /\ tok \in Presentable
    /\ RoleAccess(admin_access, tok) = "ok"
    /\ get_user_by_id(target) # NoUser
    /\ users' = change_role(target, role)
    /\ UNCHANGED <<store, now, ticks, nmint, rq, issued, mailed, used, lineage, revoked, site_vars>>

\* what one request task may do
Step(p) ==
    \/ \E e \in Emails, pw \in Passwords : LoginStart(p, e, pw)
    \/ \E tok \in Presentable : RefreshRead(p, tok)
    \/ RefreshReject(p)
    \/ RefreshCheck(p)
    \/ AddAccess(p)
    \/ AddRefresh(p)
    \/ \E sw \in BOOLEAN : Return(p, sw)
    \/ Sweep(p)

\* the same, with block_token in its two database round trips
StepFine(p) ==
    \/ \E e \in Emails, pw \in Passwords : LoginStart(p, e, pw)
    \/ \E tok \in Presentable : RefreshRead(p, tok)
    \/ RefreshReject(p)
    \/ RefreshSelect(p)
    \/ RefreshBlock(p)
    \/ AddAccess(p)
    \/ AddRefresh(p)
    \/ \E sw \in BOOLEAN : Return(p, sw)
    \/ Sweep(p)

\* the handlers that make one write
Atomic ==
    \/ \E tok \in Presentable : Logout(tok)
    \/ \E tok \in Presentable, target \in Targets : BanUser(tok, target)
    \/ \E tok \in Presentable, target \in Targets : UnbanUser(tok, target)
    \/ \E tok \in Presentable : ConfirmEmail(tok)
    \/ \E tok \in Presentable : ResetPassword(tok)

\* every handler, one login or refresh in flight at a time
Next ==
    \/ \E d \in Jumps : Tick(d)
    \/ Step("t1")
    \/ Atomic

Spec == Init /\ [][Next]_vars

\* login, refresh and logout with two requests in flight
NextRace ==
    \/ \E d \in Jumps : Tick(d)
    \/ \E p \in Procs : StepFine(p)
    \/ \E tok \in Presentable : Logout(tok)
    \/ \E tok \in Presentable : ConfirmEmail(tok)

SpecRace == InitRace /\ [][NextRace]_vars

\* a verification token is still around for an address whose row the
\* users table no longer has
InitMail ==
    InitWith(0, {<<"confirm", jwt_encode(Email[2], "email_token", 0, EMAIL_TTL)>>,
                 <<"confirm", jwt_encode("nobody", "email_token", 0, EMAIL_TTL)>>})

\* the handlers that write the users table or mail a token
NextMail ==
    \/ \E d \in Jumps : Tick(d)
    \/ Atomic
    \/ \E e \in Emails : ResendConfirmation(e)
    \/ \E e \in Emails : ResetPasswordRequest(e)

SpecMail == InitMail /\ [][NextMail]_vars

\* login on its own: the checks, the two inserts and the return
StepLogin(p) ==
    \/ \E e \in Emails, pw \in Passwords : LoginStart(p, e, pw)
    \/ AddAccess(p)
    \/ AddRefresh(p)
    \/ Return(p, FALSE)

\* the handlers that read or write a password, and the sessions around them
NextPassword ==
    \/ \E d \in Jumps : Tick(d)
    \/ StepLogin("t1")
    \/ \E tok \in Presentable : Logout(tok)
    \/ \E tok \in Presentable : ConfirmEmail(tok)
    \/ \E tok \in Presentable : ResetPassword(tok)
    \/ \E tok \in Presentable, old \in Passwords, new \in Passwords :
          ChangePassword(tok, old, new)

SpecPassword == Init /\ [][NextPassword]_vars

\* the role-guarded handlers of /users, and the logins that give their
\* callers a token
NextRoles ==
    \/ \E d \in Jumps : Tick(d)
    \/ StepLogin("t1")
    \/ \E tok \in Presentable : ConfirmEmail(tok)
    \/ \E tok \in Presentable, target \in Targets : BanUser(tok, target)
    \/ \E tok \in Presentable, target \in Targets : UnbanUser(tok, target)
    \/ \E tok \in Presentable, target \in Targets, role \in Roles :
          ChangeRole(tok, target, role)

SpecRoles == Init /\ [][NextRoles]_vars

\* ------------------------------------------------------------- settings
\* conf/config.py.  A str is the sequence of its characters.

\* Python's None where a str may stand
None == <<"None">>

\* str.strip(): leading and trailing whitespace goes
RECURSIVE lstrip(_)
lstrip(v) == IF v # <<>> /\ Head(v) = " " THEN lstrip(Tail(v)) ELSE v
RECURSIVE rstrip(_)
rstrip(v) ==
    IF v # <<>> /\ v[Len(v)] = " " THEN rstrip(SubSeq(v, 1, Len(v) - 1)) ELSE v
strip(v) == rstrip(lstrip(v))

\* str.lower(), on the letters that occur
lower_char(c) ==
    CASE c = "D" -> "d" [] c = "E" -> "e" [] c = "V" -> "v"
      [] c = "Y" -> "y" [] c = "S" -> "s" [] c = "N" -> "n" [] c = "O" -> "o"
      [] OTHER -> c
lower(v) == [i \in 1..Len(v) |-> lower_char(v[i])]

\* os.path.join(a, b) on POSIX: an absolute b discards a; a None raises
TypeError == <<"TypeError">>
os_path_join(a, b) ==
    IF a = None THEN TypeError
    ELSE IF b # <<>> /\ Head(b) = "/" THEN b
    ELSE IF a = <<>> \/ a[Len(a)] = "/" THEN a \o b
    ELSE a \o <<"/">> \o b

\* values the named environment variable may have; None is undefined
EnvValues ==
    {None, <<"d", "e", "v">>, <<" ", "D", "e", "v", " ">>, <<"/", "d", "e", "v">>}

\* settings_dir arguments; None is the default of the parameter
SettingsDirs == {None, <<"c", "f", "g">>, <<"c", "f", "g", "/">>}

\* the files a run may find, with the SECRET_KEY line each one has
DevEnv == <<"c", "f", "g", "/", "d", "e", "v", ".", "e", "n", "v">>
RootDevEnv == <<"/", "d", "e", "v", ".", "e", "n", "v">>
FileSecret == [f \in {DevEnv, RootDevEnv} |->
                 IF f = DevEnv THEN "another secret key" ELSE "root secret key"]

\* paths handed to load_settings_from_file directly
SettingsFiles == {DevEnv, RootDevEnv, <<"n", "o", ".", "e", "n", "v">>}

\* Settings(): the default of the field
Settings == [secret_key |-> "secret key"]

\* what a call returns or raises, with the paths it tested and opened
Raised(exc, tested) ==
    [status |-> exc, settings |-> Settings, tested |-> tested, opened |-> {}]

\* load_settings_from_file, lines 47-52, over the files fs
load_settings_from_file(settings_file, fs) ==
    IF settings_file \notin fs
    THEN Raised("ConfigFileNotFoundException", {settings_file})
    ELSE [status |-> "ok",
          settings |-> [Settings EXCEPT !.secret_key = FileSecret[settings_file]],
          tested |-> {settings_file}, opened |-> {settings_file}]

\* get_mandatory_environment_variable, lines 55-62
get_mandatory_environment_variable(value) ==
    IF value = None THEN "MandatoryEnvironmentVariableNotDefinedException"
    ELSE "ok"

\* load_settings_from_environment, lines 65-68; value is what os.getenv
\* gives for environment_name
load_settings_from_environment(value, settings_dir, fs) ==
    IF get_mandatory_environment_variable(value) # "ok"
    THEN Raised(get_mandatory_environment_variable(value), {})
    ELSE LET environment_value == lower(strip(value))
             config_file == os_path_join(settings_dir,
                                         environment_value \o <<".", "e", "n", "v">>)
         IN  IF config_file = TypeError THEN Raised("TypeError", {})
             ELSE load_settings_from_file(config_file, fs)

\* a process is about to load its settings: the value of the environment
\* variable, the settings_dir argument and the files there are
InitSettings ==
    /\ SessionsAt(0, {})
    /\ ContentAtRest
    /\ \E value \in EnvValues, dir \in SettingsDirs,
          fs \in SUBSET {DevEnv, RootDevEnv} :
          conf = [NoCall EXCEPT !.call = "ready", !.value = value,
                                !.settings_dir = dir, !.fs = fs]

\* load_settings_from_environment(environment_name, settings_dir)
LoadFromEnvironment ==
    /\ conf.call = "ready"
    /\ conf' = [conf EXCEPT
                  !.call = "environment",
                  !.out = load_settings_from_environment(conf.value,
                                                         conf.settings_dir, conf.fs)]
    /\ UNCHANGED <<auth_vars, items, next_id, tasks>>

\* load_settings_from_file(settings_file)
LoadFromFile(settings_file) ==
    /\ conf.call = "ready"
    /\ conf' = [conf EXCEPT
                  !.call = "file", !.settings_file = settings_file,
                  !.out = load_settings_from_file(settings_file, conf.fs)]
    /\ UNCHANGED <<auth_vars, items, next_id, tasks>>

NextSettings ==
    \/ LoadFromEnvironment
    \/ \E settings_file \in SettingsFiles : LoadFromFile(settings_file)

SpecSettings == InitSettings /\ [][NextSettings]_vars

\* -------------------------------------------------------------- content
\* endpoints/posts.py, endpoints/comments.py, endpoints/answers.py over
\* repository/posts.py, repository/comments.py, repository/answers.py.
\* The three tables have the same handlers; a row is keyed <<table, id>>.

\* the table a row's foreign key points to
ParentTable == [t \in Tables |->
                  IF t = "comments" THEN "posts"
                  ELSE IF t = "answers" THEN "comments" ELSE "none"]

\* ids a request may name: those the tables can have given, and one more
ItemIds == 1..(MaxItems + 1)

\* request bodies: what a create sends, what an update sends
NewContents == {"first"}
EditedContents == {"edited"}
\* the foreign key a create may send: a post has none
Parents(table) == IF table = "posts" THEN {0} ELSE ItemIds

\* what the AI collaborator may answer the moderation prompt with;
\* services/ai_service.py GeminiResponse answers ""
AIResponses == {<<>>, <<"Y", "e", "s">>}

\* "yes" in text
contains_yes(text) ==
    \E i \in 1..Len(text) :
        i + 2 <= Len(text) /\ SubSeq(text, i, i + 2) = <<"y", "e", "s">>

\* includes_profanity that flags whatever the answer is
includes_profanity_always(response) == TRUE

\* AIModerateService.includes_profanity, line 18, on the answer received
includes_profanity(response) == contains_yes(lower(response))

\* get_post / get_comment / get_answer
get_row(table, id) == <<table, id>> \in DOMAIN items

\* create_post / create_comment / create_answer: the row inserted
create_row(table, id, uid, parent, content) ==
    [k \in DOMAIN items \cup {<<table, id>>} |->
        IF k = <<table, id>>
        THEN [user_id |-> uid, parent |-> parent, content |-> content,
              blocked |-> FALSE]
        ELSE items[k]]

\* the foreign key of a new comment or answer names no row
create_row_fails(table, parent) ==
    table # "posts" /\ ~get_row(ParentTable[table], parent)

\* update_post / update_comment / update_answer
update_row(table, id, content) ==
    IF ~get_row(table, id) THEN items
    ELSE [items EXCEPT ![<<table, id>>].content = content]

\* rows whose foreign key names this row
children(table, id) ==
    {k \in DOMAIN items : ParentTable[k[1]] = table /\ items[k].parent = id}

\* delete_post / delete_comment / delete_answer
delete_row(table, id) ==
    [k \in DOMAIN items \ {<<table, id>>} |-> items[k]]

\* block_post / block_comment / block_answer
block_row(table, id, blocked) ==
    IF ~get_row(table, id) THEN items
    ELSE [items EXCEPT ![<<table, id>>].blocked = blocked]

\* the ownership test applied whatever the caller's role is
not_yours_any_role(caller, table, id) ==
    items[<<table, id>>].user_id # caller

\* update_* and delete_*: current_user.role == Role.user and
\* item.user_id != current_user.id
not_yours(caller, table, id) ==
    users[caller].role = "user" /\ items[<<table, id>>].user_id # caller

\* a response: status code and detail
Response(code, detail) == [code |-> code, detail |-> detail]

\* identity, row, ownership: what update_* and delete_* test before they
\* write
modify_check(tok, table, id) ==
    LET who == get_current_user(tok)
    IN  IF who.status # "ok" THEN Response(401, "COULD_NOT_VALIDATE_CREDENTIALS")
        ELSE IF ~get_row(table, id) THEN Response(404, "NOT_FOUND")
        ELSE IF not_yours(who.user, table, id) THEN Response(403, "NOT_YOURS")
        ELSE Response(200, "ok")

\* POST /posts, /comments, /answers: the tables, the scheduled tasks and
\* the response once the request is over; response is what the AI
\* collaborator answers the moderation prompt with.  The row is inserted
\* and committed, then moderated: a flagged row is blocked and the request
\* ends 403, otherwise the row is returned, and for a comment
\* task_create_answer is scheduled first.  A foreign key that names no row
\* ends the request with the IntegrityError
create_item(tok, table, parent, content, response) ==
    LET who == get_current_user(tok)
        id == next_id[table]
    IN  IF who.status # "ok"
        THEN [items |-> items, tasks |-> tasks,
              reply |-> Response(401, "COULD_NOT_VALIDATE_CREDENTIALS")]
        ELSE IF create_row_fails(table, parent)
        THEN [items |-> items, tasks |-> tasks, reply |-> Response(500, "ServerError")]
        ELSE IF includes_profanity(response)
        THEN [items |-> [create_row(table, id, who.user, parent, content)
                            EXCEPT ![<<table, id>>].blocked = TRUE],
              tasks |-> tasks,
              reply |-> Response(403, "INAPPROPRIATE")]
        ELSE [items |-> create_row(table, id, who.user, parent, content),
              tasks |-> IF table = "comments" THEN tasks \cup {id} ELSE tasks,
              reply |-> Response(201, "ok")]

\* PUT /posts/{id}, /comments/{id}, /answers/{id}: the row is read, the
\* ownership is tested, the content is written and committed, then
\* moderated as in create
update_item(tok, table, id, content, response) ==
    IF modify_check(tok, table, id).code # 200
    THEN [items |-> items, reply |-> modify_check(tok, table, id)]
    ELSE IF includes_profanity(response)
    THEN [items |-> [update_row(table, id, content)
                        EXCEPT ![<<table, id>>].blocked = TRUE],
          reply |-> Response(403, "INAPPROPRIATE")]
    ELSE [items |-> update_row(table, id, content), reply |-> Response(200, "ok")]

\* DELETE /posts/{id}, /comments/{id}, /answers/{id}.  Deleting a row that
\* others point to sets their foreign key to NULL, which the column does
\* not allow: the request ends with the IntegrityError
delete_item(tok, table, id) ==
    IF modify_check(tok, table, id).code # 200
    THEN [items |-> items, reply |-> modify_check(tok, table, id)]
    ELSE IF children(table, id) # {}
    THEN [items |-> items, reply |-> Response(500, "ServerError")]
    ELSE [items |-> delete_row(table, id), reply |-> Response(204, "ok")]

\* PATCH /posts/blocked/, /comments/blocked/, /answers/blocked/.
\* block_comment and block_answer hand the repository object to
\* get_comment / get_answer as the id (comments.py line 169, answers.py
\* line 170): the SELECT cannot bind it and the request ends with the
\* exception
block_item(tok, table, id, blocked) ==
    IF RoleAccess(admin_moderator_access, tok) = "InvalidToken"
    THEN [items |-> items, reply |-> Response(401, "COULD_NOT_VALIDATE_CREDENTIALS")]
    ELSE IF RoleAccess(admin_moderator_access, tok) = "Forbidden"
    THEN [items |-> items, reply |-> Response(403, "FORBIDDEN")]
    ELSE IF table # "posts"
    THEN [items |-> items, reply |-> Response(500, "ServerError")]
    ELSE IF ~get_row(table, id)
    THEN [items |-> items, reply |-> Response(404, "NOT_FOUND")]
    ELSE [items |-> block_row(table, id, blocked), reply |-> Response(200, "ok")]

\* rows created so far, beyond the first post and the first comment
Created == next_id["posts"] + next_id["comments"] + next_id["answers"] - 5

\* a create request that reaches the INSERT: the table gives out an id
\* whether the INSERT succeeds or not
CreateItem(tok, table, parent, content, response) ==
    /\ tok \in Presentable
    /\ get_current_user(tok).status = "ok"
    /\ Created < MaxItems
    /\ next_id' = [next_id EXCEPT ![table] = @ + 1]
    /\ items' = create_item(tok, table, parent, content, response).items
    /\ tasks' = create_item(tok, table, parent, content, response).tasks
    /\ UNCHANGED <<auth_vars, conf>>

\* an update request that writes
UpdateItem(tok, table, id, content, response) ==
    /\ tok \in Presentable
    /\ modify_check(tok, table, id).code = 200
    /\ items' = update_item(tok, table, id, content, response).items
    /\ UNCHANGED <<auth_vars, next_id, tasks, conf>>

\* a delete request that writes
DeleteItem(tok, table, id) ==
    /\ tok \in Presentable
    /\ delete_item(tok, table, id).reply.code = 204
    /\ items' = delete_item(tok, table, id).items
    /\ UNCHANGED <<auth_vars, next_id, tasks, conf>>

\* a block request that writes
BlockItem(tok, table, id, blocked) ==
    /\ tok \in Presentable
    /\ block_item(tok, table, id, blocked).reply.code = 200
    /\ items' = block_item(tok, table, id, blocked).items
    /\ UNCHANGED <<auth_vars, next_id, tasks, conf>>

\* both users are logged in, the second one as a user or as a moderator;
\* the administrator has written a post and the second user has commented
\* on it
InitContent ==
    /\ \E role \in {"user", "moderator"} :
          users = [u \in UserIds |->
                     [email_confirmed |-> TRUE,
                      password |-> get_password_hash("pw"),
                      banned |-> FALSE,
                      role |-> IF u = 1 THEN "admin" ELSE role]]
    /\ store = [t \in {jwt_encode(Email[u], "access_token", 0, ACCESS_TTL) : u \in UserIds}
                  |-> [expires |-> t.exp, blocked |-> FALSE,
                       user_id |-> get_user_by_email(t.sub)]]
    /\ now = 0
    /\ ticks = 0
    /\ nmint = 0
    /\ rq = [p \in Procs |-> Idle]
    /\ issued = DOMAIN store
    /\ mailed = {}
    /\ used = {}
    /\ lineage = {}
    /\ revoked = {}
    /\ items = [k \in {<<"posts", 1>>, <<"comments", 1>>} |->
                  [user_id |-> IF k[1] = "posts" THEN 1 ELSE 2,
                   parent |-> IF k[1] = "posts" THEN 0 ELSE 1,
                   content |-> "first", blocked |-> FALSE]]
    /\ next_id = [t \in Tables |-> IF t = "answers" THEN 1 ELSE 2]
    /\ tasks = {1}
    /\ conf = NoCall

NextContent ==
    \/ \E tok \in Presentable, table \in Tables, content \in NewContents,
          response \in AIResponses :
          \E parent \in Parents(table) :
          CreateItem(tok, table, parent, content, response)
    \/ \E tok \in Presentable, table \in Tables, id \in ItemIds,
          content \in EditedContents, response \in AIResponses :
          UpdateItem(tok, table, id, content, response)
    \/ \E tok \in Presentable, table \in Tables, id \in ItemIds :
          DeleteItem(tok, table, id)
    \/ \E tok \in Presentable, table \in Tables, id \in ItemIds,
          blocked \in BOOLEAN : BlockItem(tok, table, id, blocked)

SpecContent == InitContent /\ [][NextContent]_vars


\* ================================================================ claims

Expired(tok) == tok.exp < now

\* the response to refresh(tok) for a request that arrives in this state
RefreshResponse(tok) == refresh_check(get_token(tok), tok)

\* the refresh requests in flight that have blocked their token
Consuming(p) == rq[p].op = "refresh" /\ rq[p].pc \in {"addA", "addR", "ret"}

\* C1: refresh tokens are single-use in sequence: a refresh of a valid,
\* persisted, unblocked refresh token R0 (one whose check passed) returns a
\* new pair (A1, R1); from then on refresh(R0) is answered
\* InvalidRefreshToken; refresh(R1) succeeds as long as its owner has not
\* logged out.
C1_SingleUseRotation ==
    [][\A p \in Procs :
          /\ (Consuming(p) /\ rq'[p].op # "refresh") => rq[p].pc = "ret"
          /\ (rq[p].pc = "ret" /\ rq[p].op = "refresh" /\ rq'[p].pc # "ret") =>
                /\ (~Expired(rq[p].tok) =>
                       RefreshResponse(rq[p].tok)' = "InvalidRefreshToken")
                /\ ((~Expired(rq[p].refresh) /\ rq[p].tok \notin revoked') =>
                       RefreshResponse(rq[p].refresh)' = "ok")]_vars

\* C2: two refresh calls carrying the same refresh token never both return
\* a token pair: a consumed token has one successor.
C2_OneWinner ==
    \A l1 \in lineage, l2 \in lineage : l1[1] = l2[1] => l1 = l2

\* C3: an access token its user held at a logout, and not yet expired, is
\* rejected by get_current_user.
C3_LogoutRejectsAccess ==
    \A t \in revoked :
        (t.scope = "access_token" /\ ~Expired(t)) =>
            get_current_user(t).status # "ok"

\* C4 as stated: after a logout, refresh with any refresh token the user
\* held is answered InvalidRefreshToken.
C4_Original ==
    \A t \in revoked :
        t.scope = "refresh_token" => RefreshResponse(t) = "InvalidRefreshToken"

\* C4: a refresh token its user held at a logout is rejected from then on:
\* a refresh request that arrives after the logout is answered
\* InvalidRefreshToken while the token is unexpired and InvalidToken once it
\* has expired, whenever it makes its check, and never gets to block or mint
\* anything.
C4_LogoutRejectsRefresh ==
    /\ \A t \in revoked :
          t.scope = "refresh_token" =>
             RefreshResponse(t) = IF Expired(t) THEN "InvalidToken"
                                  ELSE "InvalidRefreshToken"
    /\ \A p \in Procs :
          (rq[p].op = "refresh" /\ "revoked" \in rq[p].flags
             /\ rq[p].tok.scope = "refresh_token") =>
             /\ rq[p].pc = "chk"
             /\ refresh_check(rq[p].db_token, rq[p].tok) =
                   IF Expired(rq[p].tok) THEN "InvalidToken"
                   ELSE "InvalidRefreshToken"

\* C4 witness: after one refresh and a logout, a refresh with the rotated
\* token, still unexpired, is in flight and about to be rejected.
C4_Witness ==
    \E p \in Procs :
        /\ rq[p].pc = "chk" /\ "revoked" \in rq[p].flags
        /\ ~Expired(rq[p].tok)
        /\ \E l \in lineage : l[2] = rq[p].tok
        /\ refresh_check(rq[p].db_token, rq[p].tok) = "InvalidRefreshToken"

\* C5: a refresh exchange is all-or-nothing: a call that ends at its check
\* has written nothing, and a call that has blocked the consumed token ends
\* only after both replacements were persisted.
C5_RefreshAllOrNothing ==
    [][\A p \in Procs :
          (rq[p].op = "refresh" /\ rq'[p].op # "refresh") =>
             IF rq[p].pc = "chk" THEN store' = store
             ELSE rq[p].pc = "ret"]_vars


\* the record add_token writes for a token of user uid
FreshRow(tok, uid) ==
    [expires |-> get_expire_date(tok), blocked |-> FALSE, user_id |-> uid]

\* C6 as stated: at the moment login or refresh returns a pair, each of the
\* two tokens has a record with blocked = false, user_id the authenticated
\* user and expires the token's exp.
C6_Original ==
    \A p \in Procs :
        rq[p].pc = "ret" =>
            \A t \in {rq[p].access, rq[p].refresh} :
                t \in DOMAIN store /\ store[t] = FreshRow(t, rq[p].user)

\* C6: every token login or refresh returns was persisted first, with
\* blocked = false, user_id the authenticated user and expires the token's
\* exp; at the moment it is returned its record is still there with that
\* user_id and expires, and is blocked only if its user logged out meanwhile.
C6_PersistedBeforeReturn ==
    [][\A p \in Procs :
          /\ (rq[p].pc = "addA" /\ rq'[p].pc = "addR") =>
                /\ rq[p].access \notin DOMAIN store
                /\ store'[rq[p].access] = FreshRow(rq[p].access, rq[p].user)
          /\ (rq[p].pc = "addR" /\ rq'[p].pc = "ret") =>
                /\ rq[p].refresh \notin DOMAIN store
                /\ store'[rq[p].refresh] = FreshRow(rq[p].refresh, rq[p].user)
          /\ (rq[p].pc = "ret" /\ rq'[p].pc # "ret") =>
                \A t \in {rq[p].access, rq[p].refresh} :
                    /\ t \in issued'
                    /\ t \in DOMAIN store
                    /\ store[t].expires = get_expire_date(t)
                    /\ store[t].user_id = rq[p].user
                    /\ Email[rq[p].user] = t.sub
                    /\ store[t].blocked => \E r \in revoked : r.sub = t.sub
          /\ (rq[p].pc # "ret" \/ rq'[p].pc = "ret") =>
                (issued' \ issued) \cap {rq[p].access, rq[p].refresh} = {}]_vars

\* C6 witness: a pair is about to be returned whose records a logout of the
\* same user has blocked since they were written.
C6_Witness ==
    \E p \in Procs :
        /\ rq[p].pc = "ret"
        /\ store[rq[p].access].blocked /\ store[rq[p].refresh].blocked
        /\ store[rq[p].refresh].expires = rq[p].refresh.exp

\* the four login checks all pass for address e and password pw
AllPass(e, pw) ==
    /\ get_user_by_email(e) # NoUser
    /\ users[get_user_by_email(e)].email_confirmed
    /\ verify_password(pw, users[get_user_by_email(e)].password)
    /\ ~users[get_user_by_email(e)].banned

\* C7: login reports the first failing check in the order user lookup,
\* email-confirmed, password, banned: an unconfirmed user gets
\* EmailNotConfirmed whatever the password; a confirmed user with a wrong
\* password gets the credentials error even when banned; UserBanned comes
\* only with a confirmed email and the right password; a pair is minted only
\* when all four pass.
C7_LoginCheckOrder ==
    [][\A e \in Emails \cup {Email[1]}, pw \in Passwords :
          LET u == get_user_by_email(e)
              r == login_check(u, pw)
          IN  /\ (u = NoUser) <=> (r = "InvalidEmail")
              /\ (u # NoUser /\ ~users[u].email_confirmed) =>
                     r = "EmailNotConfirmed"
              /\ (u # NoUser /\ users[u].email_confirmed
                    /\ ~verify_password(pw, users[u].password)) =>
                     r = "InvalidPassword"
              /\ (r = "UserBanned") =>
                     /\ users[u].email_confirmed /\ users[u].banned
                     /\ verify_password(pw, users[u].password)
              /\ (r = "ok") <=> AllPass(e, pw)
              /\ \A p \in Procs : LoginStart(p, e, pw) => AllPass(e, pw)]_vars

\* C7 witness: a user who logged in before is now confirmed and banned: the
\* wrong password is answered InvalidPassword, the right one UserBanned.
C7_Witness ==
    /\ users[2].email_confirmed /\ users[2].banned
    /\ \E t \in issued : t.sub = Email[2]
    /\ \E pw \in Passwords : login_check(2, pw) = "InvalidPassword"
    /\ \E pw \in Passwords : login_check(2, pw) = "UserBanned"


WrongScopeRejected ==
    \A tok \in Presentable :
        (tok.sig /\ ~Expired(tok)) =>
            /\ tok.scope # "access_token" =>
                  /\ get_current_user(tok).status # "ok"
                  /\ RoleAccess(admin_moderator_access, tok) # "ok"
            /\ tok.scope # "refresh_token" => RefreshResponse(tok) = "InvalidScope"
            /\ tok.scope # "email_token" => email_token_check(tok) = "InvalidScope"

\* C9: a correctly signed, unexpired token is accepted only by the
\* operation of its scope: a refresh or email token never authenticates a
\* request, an access or email token never completes a refresh, an access
\* or refresh token never confirms an email or resets a password; a
\* wrong-scope attempt changes no user or token state.
C9_ScopeMatchesOperation ==
    /\ []WrongScopeRejected
    /\ [][/\ \A tok \in Presentable :
             /\ tok.scope # "access_token" =>
                   /\ ~Logout(tok)
                   /\ \A target \in Targets :
                         ~BanUser(tok, target) /\ ~UnbanUser(tok, target)
             /\ tok.scope # "email_token" =>
                   ~ConfirmEmail(tok) /\ ~ResetPassword(tok)
       /\ \A p \in Procs :
             /\ RefreshCheck(p) => rq[p].tok.scope = "refresh_token"
             /\ (rq[p].op = "refresh" /\ rq[p].tok.scope # "refresh_token") =>
                   /\ rq[p].pc = "chk"
                   /\ rq'[p].pc \in {"chk", "idle"}
                   /\ rq'[p] # rq[p] => UNCHANGED <<users, store>>]_vars

\* C9 witness: a refresh request carrying a signed, unexpired token of
\* another scope is at its check and is answered InvalidScope.
C9_Witness ==
    \E p \in Procs :
        /\ rq[p].pc = "chk" /\ rq[p].op = "refresh"
        /\ rq[p].tok.sig /\ ~Expired(rq[p].tok)
        /\ rq[p].tok.scope \in {"access_token", "email_token"}
        /\ rq[p].db_token.found /\ ~rq[p].db_token.blocked
        /\ refresh_check(rq[p].db_token, rq[p].tok) = "InvalidScope"

\* C10: when a user is banned every unexpired token of that user is
\* blocked: none of them authenticates or refreshes from then on.
C10_BanBlocksTokens ==
    [][\A u \in UserIds :
          (~users[u].banned /\ users'[u].banned) =>
             \A t \in HeldBy(u) :
                ~Expired(t) =>
                   /\ t \in DOMAIN store' => store'[t].blocked
                   /\ get_current_user(t).status' # "ok"
                   /\ RefreshResponse(t)' # "ok"]_vars


\* C11: login answers an address without account and a confirmed account
\* with a wrong password alike, so the responses do not tell whether the
\* account exists.
C11_LoginUniformResponse ==
    \A u \in UserIds, pw \in Passwords :
        (users[u].email_confirmed /\ ~verify_password(pw, users[u].password)) =>
            login_check(u, pw) = login_check(get_user_by_email("nobody"), pw)

\* the rows of the tokens table that have not expired
Unexpired == {t \in DOMAIN store : ~(store[t].expires < now)}

\* C12: a login (its checks, its two inserts, its return and the sweep it
\* may schedule) blocks, replaces or deletes no unexpired token record that
\* existed before: every such record is the same after each of its steps,
\* and it is answered by authentication and by refresh as before.
C12_LoginKeepsSessions ==
    [][\A p \in Procs :
          ((rq[p].op = "login" \/ rq'[p].op = "login" \/ rq[p].pc = "sweep")
             /\ rq'[p] # rq[p]) =>
             \A t \in Unexpired :
                /\ t \in DOMAIN store' /\ store'[t] = store[t]
                /\ get_current_user(t)' = get_current_user(t)
                /\ RefreshResponse(t)' = RefreshResponse(t)]_vars

\* C12 witness: a user who logged in twice holds two sessions, both with
\* unblocked records and both refresh tokens good for a refresh.
C12_Witness ==
    \E t1 \in issued, t2 \in issued :
        /\ t1 # t2 /\ t1.sub = t2.sub
        /\ t1.scope = "refresh_token" /\ t2.scope = "refresh_token"
        /\ lineage = {}
        /\ RefreshResponse(t1) = "ok" /\ RefreshResponse(t2) = "ok"


\* some request's scheduled sweep runs in this step
SweepStep == \E p \in Procs : rq[p].pc = "sweep" /\ rq'[p].pc = "idle"

\* C13: over any sequence of login, refresh, logout, ban and sweep a token
\* record changes only by blocked going from false to true (user_id and
\* expires never change, blocked never returns to false), and a record
\* disappears only in a sweep, at a time when its expires is in the past.
C13_RecordsOnlyBlockOrExpire ==
    [][\A t \in DOMAIN store :
          IF t \in DOMAIN store'
          THEN /\ store'[t].user_id = store[t].user_id
               /\ store'[t].expires = store[t].expires
               /\ store[t].blocked => store'[t].blocked
          ELSE SweepStep /\ store[t].expires < now]_vars

\* C13 witness: one record has been blocked and is still stored, another
\* one that was handed out has expired and has been swept.
C13_Witness ==
    /\ \E t \in issued : t \in DOMAIN store /\ store[t].blocked
    /\ \E t \in issued : t \notin DOMAIN store /\ Expired(t)


\* ------------------------------------------------- the sweep on its own

\* token strings in the table when a sweep runs: the administrator's pair
\* minted at second 0 and an access token of the user minted a second later
SweepTokens ==
    {create0("access_token", ACCESS_TTL), create0("refresh_token", REFRESH_TTL),
     jwt_encode(Email[2], "access_token", 1, 1 + ACCESS_TTL)}

\* times at which it runs: around the expiry of each of them
SweepTimes ==
    {ACCESS_TTL - 1, ACCESS_TTL, ACCESS_TTL + 1, ACCESS_TTL + 2,
     REFRESH_TTL, REFRESH_TTL + 1}

\* the tables add_token, block_token and block_user_tokens can have made
\* of a set of those strings
SweepStores ==
    UNION { [ts -> BOOLEAN] : ts \in SUBSET SweepTokens }

\* one or two requests have returned with a sweep scheduled
InitSweep ==
    /\ users = [u \in UserIds |->
                  [email_confirmed |-> TRUE,
                   password |-> get_password_hash("pw"),
                   banned |-> FALSE,
                   role |-> IF u = 1 THEN "admin" ELSE "user"]]
    /\ \E b \in SweepStores :
          store = [t \in DOMAIN b |->
                     [expires |-> get_expire_date(t), blocked |-> b[t],
                      user_id |-> get_user_by_email(t.sub)]]
    /\ now \in SweepTimes
    /\ ticks = 0
    /\ nmint = 0
    /\ \E q \in SUBSET {"t2"} :
          rq = [p \in Procs |->
                  IF p \in q \cup {"t1"} THEN [Idle EXCEPT !.pc = "sweep"] ELSE Idle]
    /\ issued = DOMAIN store
    /\ mailed = {}
    /\ used = {}
    /\ lineage = {}
    /\ revoked = {}
    /\ SiteAtRest

NextSweep == \E p \in Procs : Sweep(p)

SpecSweep == InitSweep /\ [][NextSweep]_vars

\* C14: a sweep removes exactly the records whose expires is earlier than
\* the current time: each of those is gone afterwards, and every record
\* whose expires is not in the past remains with its blocked flag, owner
\* and expiry unchanged.
C14_SweepRemovesExactlyExpired ==
    [][SweepStep =>
          /\ \A t \in DOMAIN store :
                IF store[t].expires < now
                THEN t \notin DOMAIN store'
                ELSE t \in DOMAIN store' /\ store'[t] = store[t]
          /\ DOMAIN store' \subseteq DOMAIN store]_vars

\* C14 witness: a sweep has run at the second a stored token expires: the
\* token that expired the second before is gone, this one is kept.
C14_Witness ==
    /\ rq["t1"].pc = "idle"
    /\ \E t \in DOMAIN store : store[t].expires = now
    /\ \E t \in issued : t \notin DOMAIN store /\ t.exp < now

\* C15: a sweep returns the number of records it removed.
C15_SweepReturnsCount ==
    [][SweepStep =>
          delete_expired_return =
             {Cardinality(DOMAIN store) - Cardinality(DOMAIN store')}]_vars


\* C17: a logout of user u (block_user_tokens(u)) leaves every unexpired
\* record owned by u blocked and every record owned by another user
\* unchanged, so it never ends another user's session.
C17_LogoutBlocksOnlyOwner ==
    [][\A tok \in Presentable :
          Logout(tok) =>
             /\ DOMAIN store' = DOMAIN store
             /\ \A t \in DOMAIN store :
                   IF store[t].user_id = get_current_user(tok).user
                   THEN /\ store'[t].blocked
                        /\ store'[t].expires = store[t].expires
                        /\ store'[t].user_id = store[t].user_id
                   ELSE /\ store'[t] = store[t]
                        /\ RefreshResponse(t)' = RefreshResponse(t)]_vars

\* C17 witness: the administrator has logged out and every record of the
\* administrator is blocked, while the other user's session is unblocked
\* and its refresh token is still good for a refresh.
C17_Witness ==
    /\ \E t \in revoked : t.sub = Email[1]
    /\ \A t \in DOMAIN store : store[t].user_id = 1 => store[t].blocked
    /\ \E t \in issued :
          /\ t.sub = Email[2] /\ t.scope = "refresh_token"
          /\ t \in DOMAIN store /\ ~store[t].blocked
          /\ RefreshResponse(t) = "ok"

\* C18: adding a token whose string is already stored fails with the
\* DuplicateToken error, leaves the stored record unchanged, and the login
\* or refresh that made the call handles it and goes on to return a pair.
C18_DuplicateTokenHandled ==
    [][\A p \in Procs :
          /\ (rq[p].pc = "addA" /\ rq'[p] # rq[p] /\ add_token_fails(rq[p].access)) =>
                /\ store' = store
                /\ add_token_error(rq[p].access) = "DuplicateToken"
                /\ rq'[p].pc \in {"addA", "addR"}
          /\ (rq[p].pc = "addR" /\ rq'[p] # rq[p] /\ add_token_fails(rq[p].refresh)) =>
                /\ store' = store
                /\ add_token_error(rq[p].refresh) = "DuplicateToken"
                /\ rq'[p].pc \in {"addR", "ret"}]_vars


\* C19: confirm_email with a valid email-scoped token sets email_confirmed
\* for exactly the user the token names and changes no other user; a token
\* whose subject names no user is answered VerificationError and changes
\* nothing; email_confirmed, once true, never becomes false again.
C19_ConfirmEmail ==
    [][/\ \A tok \in Presentable :
             /\ ConfirmEmail(tok) =>
                   /\ tok.sig /\ tok.scope = "email_token" /\ ~Expired(tok)
                   /\ get_user_by_email(tok.sub) # NoUser
                   /\ users' = [users EXCEPT
                                  ![get_user_by_email(tok.sub)].email_confirmed = TRUE]
             /\ (get_email_from_token(tok) = "ok"
                   /\ get_user_by_email(tok.sub) = NoUser) =>
                   /\ email_token_check(tok) = "VerificationError"
                   /\ ~ConfirmEmail(tok)
       /\ \A u \in UserIds : users[u].email_confirmed => users'[u].email_confirmed]_vars

\* C19 witness: the user's address was confirmed with the token mailed to
\* it, the administrator's row is as it was, and the token for an address
\* without a row is answered VerificationError.
C19_Witness ==
    /\ users[2].email_confirmed /\ users[1].email_confirmed
    /\ \E u \in used : u[1] = "confirm" /\ u[2].sub = Email[2]
    /\ \E m \in mailed :
          get_user_by_email(m[2].sub) = NoUser
             /\ email_token_check(m[2]) = "VerificationError"

\* C20: email-scoped tokens are interchangeable between the two flows: a
\* token mailed for a password reset is accepted by confirm_email and
\* confirms the address, and a token mailed for a confirmation is accepted
\* by reset_password and replaces the password.
C20_EmailTokensInterchangeable ==
    \A m \in mailed :
        LET u == get_user_by_email(m[2].sub)
        IN  (u # NoUser /\ ~Expired(m[2])) =>
               /\ email_token_check(m[2]) = "ok"
               /\ confirm_email(m[2].sub)[u].email_confirmed
               /\ update_password(u, get_password_hash("gen"))[u].password
                     = get_password_hash("gen")

\* C20 witness: a token string mailed only for a password reset has
\* confirmed the address, and one mailed only for a confirmation has
\* replaced the password.
C20_Witness ==
    /\ \E m \in mailed :
          /\ m[1] = "reset" /\ <<"confirm", m[2]>> \notin mailed
          /\ <<"confirm", m[2]>> \in used
          /\ users[get_user_by_email(m[2].sub)].email_confirmed
    /\ \E m \in mailed :
          /\ m[1] = "confirm" /\ <<"reset", m[2]>> \notin mailed
          /\ <<"reset", m[2]>> \in used
          /\ users[get_user_by_email(m[2].sub)].password = get_password_hash("gen")


\* C16: a scheduled sweep may interleave at any point with another sweep,
\* a login, a refresh or a logout without changing the result: a second
\* sweep at the same time leaves the store as the first left it, a sweep
\* touches no unexpired record, and the operation it interleaves with does
\* not fail.
C16_SweepInterleaves ==
    [][/\ SweepStep =>
             /\ \A t \in Unexpired : t \in DOMAIN store' /\ store'[t] = store[t]
             /\ delete_expired' = store'
       /\ \A p \in Procs :
             (rq[p].pc = "blk" /\ rq'[p] # rq[p]) => rq'[p].pc = "addA"]_vars

\* C21 as stated: change_password with an old_password that does not match
\* the stored hash is answered InvalidPassword and leaves the stored hash
\* unchanged; with a matching one it stores a hash of new_password for the
\* caller only, after which login verifies new_password and rejects
\* old_password.
C21_Original ==
    \A tok \in Presentable, old \in Passwords, new \in Passwords :
        LET u == get_current_user(tok).user
            after == change_password(tok, old, new)
        IN  get_current_user(tok).status = "ok" =>
               IF ~verify_password(old, users[u].password)
               THEN /\ change_password_check(tok, old) = "InvalidPassword"
                    /\ after = users
               ELSE /\ after = [users EXCEPT ![u].password = get_password_hash(new)]
                    /\ verify_password(new, after[u].password)
                    /\ ~verify_password(old, after[u].password)

\* the outcome of change_password(tok, old, new) in the current state
ChangePasswordOutcome ==
    \A tok \in Presentable, old \in Passwords, new \in Passwords :
        LET u == get_current_user(tok).user
            after == change_password(tok, old, new)
        IN  get_current_user(tok).status = "ok" =>
               IF ~verify_password(old, users[u].password)
               THEN /\ change_password_check(tok, old) = "InvalidPassword"
                    /\ after = users
               ELSE /\ after = [users EXCEPT ![u].password = get_password_hash(new)]
                    /\ verify_password(new, after[u].password)
                    /\ old # new => ~verify_password(old, after[u].password)

\* C21: change_password with an old_password that does not match the stored
\* hash is answered InvalidPassword and leaves the stored hash unchanged;
\* with a matching one it stores a hash of new_password for the caller only,
\* after which login verifies new_password, and rejects old_password with
\* InvalidPassword whenever the two passwords differ.
C21_ChangePassword ==
    /\ []ChangePasswordOutcome
    /\ [][\A tok \in Presentable, old \in Passwords, new \in Passwords :
             LET u == get_current_user(tok).user
             IN  ChangePassword(tok, old, new) =>
                    /\ verify_password(old, users[u].password)
                    /\ users' = [users EXCEPT ![u].password = get_password_hash(new)]
                    /\ login_check(u, new)' \in {"ok", "UserBanned"}
                    /\ old # new => login_check(u, old)' = "InvalidPassword"]_vars

\* C21 witness: the user has changed the signup password for another one:
\* login accepts the new one and answers the old one InvalidPassword, and a
\* change_password that gives the old one again is answered InvalidPassword.
C21_Witness ==
    /\ users[2].password = get_password_hash("gen")
    /\ used = {<<"confirm", jwt_encode(Email[2], "email_token", 0, EMAIL_TTL)>>}
    /\ login_check(2, "gen") = "ok"
    /\ login_check(2, "pw") = "InvalidPassword"
    /\ \E tok \in issued :
          tok.sub = Email[2] /\ change_password_check(tok, "pw") = "InvalidPassword"

\* the answer of each guard to each token a client can present
RoleGuardAnswers ==
    \A tok \in Presentable,
       allowed \in {admin_access, admin_moderator_access, all_roles_access} :
        LET who == get_current_user(tok)
        IN  IF who.status # "ok"
            THEN RoleAccess(allowed, tok) = who.status
            ELSE RoleAccess(allowed, tok) =
                    IF users[who.user].role \in allowed THEN "ok" ELSE "Forbidden"

\* C22: a role-guarded operation proceeds only when the bearer token
\* resolves to a user whose role is in the allowed set; the guard answers
\* Forbidden exactly when the identity resolves and its role is outside the
\* set; a request whose token cannot be resolved gets the authentication
\* error, never Forbidden.
C22_RoleAfterIdentity ==
    /\ []RoleGuardAnswers
    /\ [][\A tok \in Presentable, target \in Targets :
             LET who == get_current_user(tok)
             IN  /\ (BanUser(tok, target) \/ UnbanUser(tok, target)) =>
                       /\ who.status = "ok"
                       /\ users[who.user].role \in admin_moderator_access
                 /\ \A role \in Roles :
                       ChangeRole(tok, target, role) =>
                          /\ who.status = "ok"
                          /\ users[who.user].role \in admin_access]_vars

\* C22 witness: the user, made a moderator by the administrator, holds a
\* token that the admin-only guard answers Forbidden and the
\* admin-or-moderator guard lets through, while a token that does not
\* resolve is answered with the authentication error by both.
C22_Witness ==
    /\ \E tok \in issued :
          /\ tok.sub = Email[2]
          /\ users[2].role = "moderator"
          /\ RoleAccess(admin_access, tok) = "Forbidden"
          /\ RoleAccess(admin_moderator_access, tok) = "ok"
    /\ \E tok \in Presentable :
          /\ RoleAccess(admin_access, tok) = "InvalidToken"
          /\ RoleAccess(admin_moderator_access, tok) = "InvalidToken"

\* '<name>.env' in settings_dir, as a path
InSettingsDir(settings_dir, name) ==
    IF settings_dir[Len(settings_dir)] = "/"
    THEN settings_dir \o name \o <<".", "e", "n", "v">>
    ELSE settings_dir \o <<"/">> \o name \o <<".", "e", "n", "v">>

\* the environment value stripped and lower-cased, for the values drawn
Normalised(value) ==
    IF value = <<" ", "D", "e", "v", " ">> THEN <<"d", "e", "v">> ELSE value

\* C23: settings loading fails before it reads anything:
\* load_settings_from_environment raises
\* MandatoryEnvironmentVariableNotDefinedException when the named variable
\* is undefined, whatever settings_dir is (none included), and otherwise
\* loads '<value stripped and lower-cased>.env' from settings_dir;
\* load_settings_from_file raises ConfigFileNotFoundException for a path
\* that does not exist, without opening it, and otherwise returns settings
\* carrying the file's values.
C23_SettingsFailFirst ==
    /\ conf.call = "environment" =>
          IF conf.value = None
          THEN /\ conf.out.status = "MandatoryEnvironmentVariableNotDefinedException"
               /\ conf.out.tested = {} /\ conf.out.opened = {}
          ELSE /\ conf.settings_dir # None
               /\ conf.out =
                     load_settings_from_file(
                        InSettingsDir(conf.settings_dir, Normalised(conf.value)),
                        conf.fs)
    /\ conf.call = "file" =>
          IF conf.settings_file \notin conf.fs
          THEN /\ conf.out.status = "ConfigFileNotFoundException"
               /\ conf.out.opened = {}
          ELSE /\ conf.out.status = "ok"
               /\ conf.out.opened = {conf.settings_file}
               /\ conf.out.settings.secret_key = FileSecret[conf.settings_file]

\* C24: the admin/moderator block operation on a comment or an answer whose
\* id exists sets that item's blocked flag to the value in the request body
\* and reports success; it answers not-found only when no item with that id
\* exists.
C24_BlockCommentOrAnswer ==
    \A tok \in Presentable, table \in {"comments", "answers"}, id \in ItemIds,
       blocked \in BOOLEAN :
        RoleAccess(admin_moderator_access, tok) = "ok" =>
            LET out == block_item(tok, table, id, blocked)
            IN  IF get_row(table, id)
                THEN /\ out.reply.code = 200
                     /\ out.items = [items EXCEPT ![<<table, id>>].blocked = blocked]
                ELSE /\ out.reply.code = 404
                     /\ out.items = items

\* what update and delete do with each request that names a row, by what
\* its caller is to the row
OwnerOrStaffOutcome ==
    \A tok \in Presentable, table \in Tables, id \in ItemIds :
        LET caller == get_current_user(tok).user
            k == <<table, id>>
            stranger == users[caller].role = "user" /\ items[k].user_id # caller
            del == delete_item(tok, table, id)
        IN  (get_current_user(tok).status = "ok" /\ get_row(table, id)) =>
               /\ \A content \in EditedContents, response \in AIResponses :
                     LET upd == update_item(tok, table, id, content, response)
                     IN  IF stranger
                         THEN upd.reply = Response(403, "NOT_YOURS") /\ upd.items = items
                         ELSE /\ upd.reply # Response(403, "NOT_YOURS")
                              /\ upd.items[k].content = content
               /\ IF stranger
                  THEN del.reply = Response(403, "NOT_YOURS") /\ del.items = items
                  ELSE /\ del.reply # Response(403, "NOT_YOURS")
                       /\ children(table, id) = {} =>
                             k \notin DOMAIN del.items /\ del.reply.code = 204

\* C29: update and delete of a post, comment or answer by a caller whose
\* role is user take effect only when the caller owns the item; for a
\* non-owner with role user the request fails 403 and the item is
\* unchanged; callers with role admin or moderator may update or delete any
\* item (nothing but the rows that point to it keeps a delete from taking
\* effect); a row's content changes and a row goes only in a request of
\* its owner, an administrator or a moderator.
C29_OwnerOrStaff ==
    /\ []OwnerOrStaffOutcome
    /\ [][\A k \in DOMAIN items :
             (k \notin DOMAIN items' \/ items'[k].content # items[k].content) =>
                \E tok \in Presentable :
                   /\ get_current_user(tok).status = "ok"
                   /\ \/ users[get_current_user(tok).user].role \in {"admin", "moderator"}
                      \/ items[k].user_id = get_current_user(tok).user
                   /\ \/ items' = delete_item(tok, k[1], k[2]).items
                      \/ \E content \in EditedContents, response \in AIResponses :
                            items' = update_item(tok, k[1], k[2], content, response).items]_vars

\* C29 witness: the second user, whose role is user, has edited a row of
\* her own; her update and her delete of the administrator's post are
\* answered 403 and leave it as it is, and the administrator may delete her
\* row.
C29_Witness ==
    /\ users[2].role = "user"
    /\ \E k \in DOMAIN items : items[k].user_id = 2 /\ items[k].content = "edited"
    /\ items[<<"posts", 1>>].user_id = 1
    /\ \E tok \in issued :
          /\ get_current_user(tok).user = 2
          /\ delete_item(tok, "posts", 1).reply = Response(403, "NOT_YOURS")
          /\ \A r \in AIResponses :
                update_item(tok, "posts", 1, "edited", r).reply = Response(403, "NOT_YOURS")
    /\ \E tok \in issued, k \in DOMAIN items :
          /\ get_current_user(tok).user = 1 /\ items[k].user_id = 2
          /\ delete_item(tok, k[1], k[2]).reply.code = 204

\* the answers of the AI collaborator that the moderation check flags
Flagged == {<<"Y", "e", "s">>}

\* what create and update do with the answer of the moderation check
ModerationOutcome ==
    \A tok \in Presentable, table \in Tables, response \in AIResponses :
        get_current_user(tok).status = "ok" =>
           /\ \A content \in NewContents, parent \in Parents(table) :
                 LET k == <<table, next_id[table]>>
                     out == create_item(tok, table, parent, content, response)
                 IN  ~create_row_fails(table, parent) =>
                        /\ k \notin DOMAIN items /\ k \in DOMAIN out.items
                        /\ \A j \in DOMAIN items : out.items[j] = items[j]
                        /\ out.items[k].content = content
                        /\ IF response \in Flagged
                           THEN /\ out.reply = Response(403, "INAPPROPRIATE")
                                /\ out.items[k].blocked
                                /\ out.tasks = tasks
                           ELSE /\ out.reply.code = 201
                                /\ ~out.items[k].blocked
                                /\ out.tasks = IF table = "comments"
                                               THEN tasks \cup {k[2]} ELSE tasks
           /\ \A content \in EditedContents, id \in ItemIds :
                 LET k == <<table, id>>
                     out == update_item(tok, table, id, content, response)
                 IN  modify_check(tok, table, id).code = 200 =>
                        /\ DOMAIN out.items = DOMAIN items
                        /\ \A j \in DOMAIN items \ {k} : out.items[j] = items[j]
                        /\ IF response \in Flagged
                           THEN /\ out.reply = Response(403, "INAPPROPRIATE")
                                /\ out.items[k].blocked
                           ELSE /\ out.reply.code = 200
                                /\ out.items[k].blocked = items[k].blocked

\* C30: when the moderation check flags the content of a create or update
\* of a post, comment or answer, the request fails 403 and, once it has
\* completed, the stored item has blocked = true (the item is kept), and
\* for a flagged new comment no auto-answer task is scheduled; an item
\* whose content was not flagged keeps the blocked value it had (false for
\* a new one); a task is scheduled only together with a new comment that
\* is not blocked.
C30_FlaggedIsBlocked ==
    /\ []ModerationOutcome
    /\ [][\A id \in tasks' \ tasks :
             /\ <<"comments", id>> \in DOMAIN items' \ DOMAIN items
             /\ ~items'[<<"comments", id>>].blocked]_vars

\* C30 witness: a comment is stored with blocked = true that no block
\* request can have blocked and no auto-answer task was scheduled for,
\* while the post it is on is not blocked; and a row that was blocked has
\* been edited with content that was not flagged and is still blocked.
C30_Witness ==
    /\ \E k \in DOMAIN items :
          /\ k[1] = "comments" /\ items[k].blocked /\ k[2] \notin tasks
          /\ items[k].content = "first"
          /\ ~items[<<"posts", items[k].parent>>].blocked
    /\ \E k \in DOMAIN items : items[k].blocked /\ items[k].content = "edited"

\* C25: token strings persisted by login and refresh are pairwise distinct
\* even when minted for the same user and scope within the same clock
\* second: no add_token of a login or a refresh collides on the primary
\* key, and a refresh that has blocked its token does not end before its
\* replacements are persisted.
C25_MintsAreDistinct ==
    [][\A p \in Procs :
          /\ (rq[p].pc = "addA" /\ rq'[p] # rq[p]) =>
                /\ rq[p].access \notin DOMAIN store
                /\ rq'[p].pc = "addR"
          /\ (rq[p].pc = "addR" /\ rq'[p] # rq[p]) =>
                /\ rq[p].refresh \notin DOMAIN store
                /\ rq'[p].pc = "ret"]_vars

\* C26: while a user's banned flag is true no operation issues a new token
\* pair to that user: a login of the user fails whatever the password, and
\* a refresh with a refresh token the user holds fails.
C26_BannedGetsNoTokens ==
    \A u \in UserIds :
        users[u].banned =>
           /\ \A pw \in Passwords : login_check(u, pw) # "ok"
           /\ \A t \in HeldBy(u) : RefreshResponse(t) # "ok"

\* every record of the Token Store belongs to an existing user whose
\* address is confirmed
OwnersConfirmed ==
    \A t \in DOMAIN store :
        /\ get_user_by_id(store[t].user_id) # NoUser
        /\ users[store[t].user_id].email_confirmed

\* C27: in every reachable state each token record in the Token Store
\* belongs to an existing user whose email_confirmed is true; a record is
\* added only by a login of a confirmed user, for that user, or by a
\* refresh, for the owner of the stored token it consumes; and
\* email_confirmed is never reset.
C27_TokensOfConfirmedUsers ==
    /\ []OwnersConfirmed
    /\ [][/\ \A u \in UserIds : users[u].email_confirmed => users'[u].email_confirmed
          /\ \A t \in DOMAIN store' \ DOMAIN store :
                \E p \in Procs :
                   /\ rq[p].pc \in {"addA", "addR"}
                   /\ t \in {rq[p].access, rq[p].refresh}
                   /\ store'[t].user_id = rq[p].user
                   /\ IF rq[p].op = "login"
                      THEN users[rq[p].user].email_confirmed
                      ELSE /\ rq[p].op = "refresh"
                           /\ get_token(rq[p].tok).found
                           /\ get_token(rq[p].tok).user_id = store'[t].user_id]_vars

\* C27 witness: the user who signed up unconfirmed has confirmed, logged in
\* and refreshed: the store holds the record of her login and the record a
\* refresh of it added.
C27_Witness ==
    \E l \in lineage :
        /\ l[1] \in DOMAIN store /\ l[2] \in DOMAIN store
        /\ store[l[1]].user_id = 2 /\ store[l[2]].user_id = 2
        /\ users[2].email_confirmed

\* C28: change_password and the reset_password completion leave the Token
\* Store unchanged: in a step that changes a user's password the store
\* stays as it is, and every access and refresh token the user holds is
\* answered by the protected endpoints and by refresh as it was before
\* (so it keeps working until logout or expiry).
C28_PasswordKeepsSessions ==
    [][\A u \in UserIds :
          users'[u].password # users[u].password =>
             /\ store' = store
             /\ \A t \in HeldBy(u) :
                   /\ get_current_user(t)' = get_current_user(t)
                   /\ RefreshResponse(t)' = RefreshResponse(t)]_vars

\* C28 witness: the administrator has changed the password (no reset token
\* was mailed for that account) and the ordinary user's password was reset;
\* the access and refresh tokens each of them holds are stored unblocked
\* and are still accepted.
C28_Witness ==
    /\ users[1].password = get_password_hash("gen")
    /\ \E e \in used : e[1] = "reset" /\ e[2].sub = Email[2]
    /\ users[2].password = get_password_hash("gen")
    /\ \A u \in UserIds :
          \E a \in HeldBy(u), r \in HeldBy(u) :
             /\ a \in DOMAIN store /\ ~store[a].blocked
             /\ r \in DOMAIN store /\ ~store[r].blocked
             /\ get_current_user(a).status = "ok"
             /\ RefreshResponse(r) = "ok"

====
